---- MODULE Spec2Model ----
(***************************************************************************)
(* State-machine model of the async-iterator combinators of               *)
(* src/src/001_async_iterator_practice.ts:                                *)
(*   - limitConcurrency    (lines 168-214)                                *)
(*   - mergeAsyncIterators (lines 142-165)                                *)
(*   - filterAsyncIterator (lines 40-49), mapAsyncIterator (lines 52-59)   *)
(*   - createBasicAsyncIterator (8-12), createDelayedAsyncIterator (15-21),*)
(*     createCancellableAsyncIterator (99-120)                             *)
(* and of the class ManualApiStream of src/unnamed/part_002.               *)
(*                                                                         *)
(* JavaScript is single threaded and run-to-completion: a synchronous     *)
(* segment of a generator body is never interleaved with a promise        *)
(* reaction or a timer.  Loops that may not terminate are modelled one    *)
(* iteration per step, and while such a segment runs (pc = "dispatch")    *)
(* no other action is enabled.                                            *)
(***************************************************************************)
EXTENDS Integers, Sequences, FiniteSets

\* ---------------------------------------------------------------- bounds
MaxItems == 3
MaxConcurrency == 4
MaxSources == 2
MaxLen == 3
MaxRequests == 2
MaxAfterDone == 2
MaxOverlap == 2
MaxSettleCalls == 2
MaxThens == 2
MaxCount == 3
MaxNextCalls == 4

\* ------------------------------------------------------------- variables
VARIABLES
  \* limitConcurrency
  items,        \* the collection handed to limitConcurrency
  concurrency,  \* the limit handed to limitConcurrency
  iterator,     \* items[Symbol.iterator](): [index, done]
  inProgress,   \* Set<Promise<R>>; a promise is named by its item's position
  results,      \* R[] buffer of fulfilled results not yet yielded
  completed,    \* the completed flag
  promise,      \* state of the promise asyncOperation returned for each item
  jobs,         \* the microtask queue of promise reaction jobs
  errors,       \* what console.error was called with, in order
  emitted,      \* values the consumer received from the generator, in order
  fulfilOrder,  \* the items whose promise fulfilled, in the order they did
  started,      \* per item: how often asyncOperation was called on it
  pc,           \* where the generator body is
  \* mergeAsyncIterators
  sources,          \* the async iterators handed to the merge: [len, cyclic]
  srcPos,           \* per source: how many of its values it has delivered
  srcOut,           \* per source: next() calls issued on it and not yet resolved
  iterators,        \* the iterators array (source ids), spliced by the merge
  pendingPromises,  \* the pendingPromises array: [src, ord, st, val]
  index,            \* the index the current race resolved with (0: none yet)
  taken,            \* per source: how many of its values the consumer received
  lastOut,          \* <<source, value>>: what the consumer received last
  received,         \* per value of a finite source: how often the consumer received it
  srcFails,         \* per source: it throws, in place of completing, after its values
  srcReturned,      \* per source: return() was called on it
  thrown,           \* the reasons the merged sequence's next() rejected with, in order
  mpc,              \* where the merge generator body is
  \* filterAsyncIterator / mapAsyncIterator
  tkind,         \* which of the two combinators was called: "map" or "filter"
  tvals,         \* the values the source yields, in order
  tSrcFails,     \* the source throws, in place of completing, after its values
  tbad,          \* the value on which the mapper / predicate fails (0: none)
  tretr,         \* next() calls the combinator has issued on the source
  tpos,          \* next() calls of the source that have settled
  tsrcReturned,  \* return() calls the combinator has made on the source
  tq,            \* the generator's queue of consumer requests, oldest first
  titem,         \* the loop variable item (0: none yet)
  tcalls,        \* invocations of the mapper / predicate started
  tfnActive,     \* invocations of the mapper / predicate not yet settled
  tout,          \* values the consumer received, in order
  tthrown,       \* reasons the consumer's requests rejected with, in order
  tabandoned,    \* a return() of the consumer reached the generator before it had ended
  tlate,         \* a next() was answered "done" after the generator had ended
  tpc,           \* where the generator body is
  \* createBasicAsyncIterator / createDelayedAsyncIterator /
  \* createCancellableAsyncIterator
  gkind,       \* which of the three was called: "basic", "delayed", "cancellable"
  gi,          \* the loop variable i (basic: the number of yields passed)
  gcancelled,  \* the cancelled flag
  gcancelAt,   \* how many values had been emitted when cancel() was first called (-1: not called)
  gq,          \* next() requests of the consumer not yet answered
  gout,        \* values the consumer received, in order
  gpc,         \* where the generator body is
  greturned,   \* the consumer has called return()
  gcleanups,   \* how often the finally block (lines 111-113) has run
  \* ManualApiStream
  squeue,      \* this.queue
  swaiting,    \* this.waitingResolver is set
  sfinished,   \* this.isFinished
  sfetching,   \* this.isFetching
  scounter,    \* the local counter of startFetching
  sppc,        \* where startFetching is
  spending,    \* the consumer has a next() call whose promise has not resolved
  sgot,        \* the results the consumer's next() calls resolved with, in order
  scancelled,  \* cancelStream() has been called
  scalls,      \* how many times next() has been called
  swho,        \* the next() call whose resolve is in this.waitingResolver (0: null)
  scallOf,     \* per entry of sgot: the next() call that resolved with it
  \* SimplePromiseLike
  pphase,      \* "executor" while the constructor runs the executor, then "live"
  pstate,      \* this._state
  pvalue,      \* this._value (0: undefined)
  preason,     \* this._reason (0: undefined)
  pfulCbs,     \* this._onFulfilledCallbacks: the then() calls whose wrapper it holds
  prejCbs,     \* this._onRejectedCallbacks: the then() calls whose wrapper it holds
  pthens,      \* per then() call: its handlers and the promise it returned
  ptimers,     \* the setTimeout(..., 0) callbacks not yet run, oldest first
  pcalls,      \* how many times resolve or reject has been called
  pthrew,      \* the executor threw
  \* AsyncCountdown and the iterator it hands out
  cstart,      \* this.startCount
  ccount,      \* currentCount
  cinterval,   \* interval
  cpaused,     \* isPaused
  cflight,     \* next() calls suspended at the delay of line 82
  cgot,        \* the results next() calls resolved with, in order
  cclosed      \* return() or throw() has been called

lcVars == <<items, concurrency, iterator, inProgress, results, completed,
            promise, jobs, errors, emitted, fulfilOrder, started, pc>>

mVars == <<sources, srcPos, srcOut, iterators, pendingPromises, index,
           taken, lastOut, received, srcFails, srcReturned, thrown, mpc>>

tVars == <<tkind, tvals, tSrcFails, tbad, tretr, tpos, tsrcReturned, tq, titem,
           tcalls, tfnActive, tout, tthrown, tabandoned, tlate, tpc>>

gVars == <<gkind, gi, gcancelled, gcancelAt, gq, gout, gpc, greturned,
           gcleanups>>

sVars == <<squeue, swaiting, sfinished, sfetching, scounter, sppc, spending,
           sgot, scancelled, scalls, swho, scallOf>>

pVars == <<pphase, pstate, pvalue, preason, pfulCbs, prejCbs, pthens, ptimers,
           pcalls, pthrew>>

cVars == <<cstart, ccount, cinterval, cpaused, cflight, cgot, cclosed>>

vars == <<lcVars, mVars, tVars, gVars, sVars, pVars, cVars>>

\* ---------------------------------------------------------------- helpers
Range(s) == {s[i] : i \in DOMAIN s}

SeqsUpTo(S, n) == UNION {[1..k -> S] : k \in 0..n}


ItemValues == {1, 2}

\* the worker: asyncOperation(item) fulfils with Worker(item) or rejects
\* with Reason(item); which of the two is decided when the promise settles
Worker(x) == x + 10
Reason(x) == 0 - x

\* ============================================================ limitConcurrency

\* the state of a merge that was never created
MIdle ==
  /\ sources = <<>>
  /\ srcPos = <<>>
  /\ srcOut = <<>>
  /\ iterators = <<>>
  /\ pendingPromises = <<>>
  /\ index = 0
  /\ taken = <<>>
  /\ lastOut = <<0, 0>>
  /\ received = <<>>
  /\ srcFails = <<>>
  /\ srcReturned = <<>>
  /\ thrown = <<>>
  /\ mpc = "none"

\* the state of a map / filter that was never created
TIdle ==
  /\ tkind = "none"
  /\ tvals = <<>>
  /\ tSrcFails = FALSE
  /\ tbad = 0
  /\ tretr = 0
  /\ tpos = 0
  /\ tsrcReturned = 0
  /\ tq = <<>>
  /\ titem = 0
  /\ tcalls = 0
  /\ tfnActive = 0
  /\ tout = <<>>
  /\ tthrown = <<>>
  /\ tabandoned = FALSE
  /\ tlate = FALSE
  /\ tpc = "none"

\* the state of a basic / delayed / cancellable iterator that was never created
GIdle ==
  /\ gkind = "none"
  /\ gi = 0
  /\ gcancelled = FALSE
  /\ gcancelAt = 0 - 1
  /\ gq = 0
  /\ gout = <<>>
  /\ gpc = "none"
  /\ greturned = FALSE
  /\ gcleanups = 0

\* the state of a ManualApiStream that was never constructed
SIdle ==
  /\ squeue = <<>>
  /\ swaiting = FALSE
  /\ sfinished = FALSE
  /\ sfetching = FALSE
  /\ scounter = 0
  /\ sppc = "none"
  /\ spending = FALSE
  /\ sgot = <<>>
  /\ scancelled = FALSE
  /\ scalls = 0
  /\ swho = 0
  /\ scallOf = <<>>

\* the state of a SimplePromiseLike that was never constructed
PIdle ==
  /\ pphase = "none"
  /\ pstate = "none"
  /\ pvalue = 0
  /\ preason = 0
  /\ pfulCbs = <<>>
  /\ prejCbs = <<>>
  /\ pthens = <<>>
  /\ ptimers = <<>>
  /\ pcalls = 0
  /\ pthrew = FALSE

\* the state of an AsyncCountdown that was never constructed
CIdle ==
  /\ cstart = 0
  /\ ccount = 0
  /\ cinterval = 0
  /\ cpaused = FALSE
  /\ cflight = 0
  /\ cgot = <<>>
  /\ cclosed = FALSE

LCInit ==
  /\ MIdle
  /\ TIdle
  /\ GIdle
  /\ SIdle
  /\ PIdle
  /\ CIdle
  /\ items \in SeqsUpTo(ItemValues, MaxItems)
  /\ concurrency \in 0..MaxConcurrency
  /\ iterator = [index |-> 0, done |-> FALSE]
  /\ inProgress = {}
  /\ results = <<>>
  /\ completed = FALSE
  /\ promise = [i \in DOMAIN items |-> "none"]
  /\ jobs = <<>>
  /\ errors = <<>>
  /\ emitted = <<>>
  /\ fulfilOrder = <<>>
  /\ started = [i \in DOMAIN items |-> 0]
  /\ pc = "created"

\* line 181: completed = inProgress.size === 0
\* (faulty variants: completed as soon as the iterator is exhausted; the
\* test inverted)
CompletedNow_Early(inP) == TRUE
CompletedNow_Busy(inP) == Cardinality(inP) > 0
CompletedNow(inP) == Cardinality(inP) = 0

\* startNext (lines 178-199), entered with inProgress = inP
\* (faulty variant: the item is read without advancing the iterator)
StartNext_Peek(inP) ==
  IF iterator.index >= Len(items)
    THEN /\ iterator' = [iterator EXCEPT !.done = TRUE]
         /\ completed' = CompletedNow(inP)
         /\ inProgress' = inP
         /\ promise' = promise
         /\ started' = started
    ELSE /\ iterator' = iterator
         /\ promise' = [promise EXCEPT ![iterator.index + 1] = "pending"]
         /\ inProgress' = inP \cup {iterator.index + 1}
         /\ started' = [started EXCEPT ![iterator.index + 1] = @ + 1]
         /\ completed' = completed
StartNext(inP) ==
  IF iterator.index >= Len(items)
    THEN \* iterator.next() reports done
         /\ iterator' = [iterator EXCEPT !.done = TRUE]
         /\ completed' = CompletedNow(inP)
         /\ inProgress' = inP
         /\ promise' = promise
         /\ started' = started
    ELSE \* asyncOperation(value) is called and its promise recorded
         /\ iterator' = [iterator EXCEPT !.index = iterator.index + 1]
         /\ promise' = [promise EXCEPT ![iterator.index + 1] = "pending"]
         /\ inProgress' = inP \cup {iterator.index + 1}
         /\ started' = [started EXCEPT ![iterator.index + 1] = @ + 1]
         /\ completed' = completed

\* line 202: the condition of the initial dispatch loop
\* (faulty variant: <= in place of <)
DispatchGuard_Inclusive == Cardinality(inProgress) <= concurrency /\ ~completed
DispatchGuard == Cardinality(inProgress) < concurrency /\ ~completed

\* lines 207-213: one pass of the output loop, up to its yield, its await
\* or its exit
\* (faulty variant: the loop tests the completed flag only)
OutputPass_FlagOnly ==
  IF ~completed
    THEN IF Len(results) > 0
           THEN /\ emitted' = Append(emitted, Head(results))
                /\ results' = Tail(results)
                /\ pc' = "yielded"
           ELSE /\ pc' = "sleep"
                /\ UNCHANGED <<emitted, results>>
    ELSE /\ pc' = "done"
         /\ UNCHANGED <<emitted, results>>
OutputPass ==
  IF ~completed \/ Len(results) > 0
    THEN IF Len(results) > 0
           THEN /\ emitted' = Append(emitted, Head(results))
                /\ results' = Tail(results)
                /\ pc' = "yielded"
           ELSE /\ pc' = "sleep"
                /\ UNCHANGED <<emitted, results>>
    ELSE /\ pc' = "done"
         /\ UNCHANGED <<emitted, results>>

\* the generator is suspended, or finished, and the event loop has control
Suspended == pc \in {"sleep", "yielded", "done", "closed"}

\* the consumer's first next(): the generator body starts running
LCStart ==
  /\ UNCHANGED <<mVars, tVars, gVars, sVars, pVars, cVars>>
  /\ pc = "created"
  /\ pc' = "dispatch"
  /\ UNCHANGED <<items, concurrency, iterator, inProgress, results, completed,
                 promise, jobs, errors, emitted, fulfilOrder, started>>

\* lines 202-204: one iteration of the initial dispatch loop
LCDispatch ==
  /\ UNCHANGED <<mVars, tVars, gVars, sVars, pVars, cVars>>
  /\ pc = "dispatch"
  /\ DispatchGuard
  /\ StartNext(inProgress)
  /\ UNCHANGED <<items, concurrency, results, jobs, errors, emitted,
                 fulfilOrder, pc>>

\* the dispatch loop ends and control falls into the output loop
LCDispatchExit ==
  /\ UNCHANGED <<mVars, tVars, gVars, sVars, pVars, cVars>>
  /\ pc = "dispatch"
  /\ ~DispatchGuard
  /\ OutputPass
  /\ UNCHANGED <<items, concurrency, iterator, inProgress, completed,
                 promise, jobs, errors, fulfilOrder, started>>

\* the consumer calls next() again after a yield
LCResume ==
  /\ UNCHANGED <<mVars, tVars, gVars, sVars, pVars, cVars>>
  /\ pc = "yielded"
  /\ OutputPass
  /\ UNCHANGED <<items, concurrency, iterator, inProgress, completed,
                 promise, jobs, errors, fulfilOrder, started>>

\* line 211: the 10 ms timer fires (a macrotask: the microtask queue is empty)
LCTimer ==
  /\ UNCHANGED <<mVars, tVars, gVars, sVars, pVars, cVars>>
  /\ pc = "sleep"
  /\ jobs = <<>>
  /\ OutputPass
  /\ UNCHANGED <<items, concurrency, iterator, inProgress, completed,
                 promise, jobs, errors, fulfilOrder, started>>

\* the promise of item i settles; the reaction registered by
\* promise.then(...) at line 188 is queued
LCSettle(i, outcome) ==
  /\ UNCHANGED <<mVars, tVars, gVars, sVars, pVars, cVars>>
  /\ Suspended
  /\ promise[i] = "pending"
  /\ promise' = [promise EXCEPT ![i] = outcome]
  /\ jobs' = Append(jobs, [kind |-> "then", id |-> i])
  /\ fulfilOrder' = IF outcome = "fulfilled" THEN Append(fulfilOrder, i)
                                              ELSE fulfilOrder
  /\ UNCHANGED <<items, concurrency, iterator, inProgress, results, completed,
                 errors, emitted, started, pc>>

\* line 190: results.push(result)
\* (faulty variant: unshift in place of push)
PushResult_Front(buf, v) == <<v>> \o buf
PushResult(buf, v) == Append(buf, v)

\* lines 188-192: the fulfilment callback
\* (faulty variant: the result is buffered but startNext is not called)
OnFulfilled_NoBackfill(i) ==
  /\ results' = PushResult(results, Worker(items[i]))
  /\ inProgress' = inProgress \ {i}
  /\ UNCHANGED <<iterator, completed, promise, errors, started>>
OnFulfilled(i) ==
  /\ results' = PushResult(results, Worker(items[i]))
  /\ StartNext(inProgress \ {i})
  /\ errors' = errors

\* lines 192-196: the rejection callback
\* (faulty variant: the slot is freed but startNext is not called)
OnRejected_NoBackfill(i) ==
  /\ errors' = Append(errors, Reason(items[i]))
  /\ inProgress' = inProgress \ {i}
  /\ UNCHANGED <<iterator, completed, promise, results, started>>
OnRejected(i) ==
  /\ errors' = Append(errors, Reason(items[i]))
  /\ StartNext(inProgress \ {i})
  /\ results' = results

\* the head of the microtask queue runs
LCRunJob ==
  /\ UNCHANGED <<mVars, tVars, gVars, sVars, pVars, cVars>>
  /\ Suspended
  /\ jobs # <<>>
  /\ LET j == Head(jobs) IN
       IF j.kind = "then" /\ promise[j.id] = "rejected"
         THEN \* .then has no rejection handler: the derived promise rejects
              \* and the .catch reaction is queued
              /\ jobs' = Append(Tail(jobs), [kind |-> "catch", id |-> j.id])
              /\ UNCHANGED <<iterator, inProgress, results, completed,
                             promise, errors, started>>
         ELSE /\ jobs' = Tail(jobs)
              /\ IF j.kind = "then" THEN OnFulfilled(j.id) ELSE OnRejected(j.id)
  /\ UNCHANGED <<items, concurrency, emitted, fulfilOrder, pc>>

LCNext ==
  \/ LCStart
  \/ LCDispatch
  \/ LCDispatchExit
  \/ LCResume
  \/ LCTimer
  \/ \E i \in DOMAIN items : \E o \in {"fulfilled", "rejected"} : LCSettle(i, o)
  \/ LCRunJob

SpecLimit == LCInit /\ [][LCNext]_vars

\* The event loop runs every task that is ready, the consumer keeps
\* retrieving and every worker promise settles.
FairSpecLimit ==
  /\ SpecLimit
  /\ WF_vars(LCStart)
  /\ WF_vars(LCDispatch)
  /\ WF_vars(LCDispatchExit)
  /\ WF_vars(LCResume)
  /\ WF_vars(LCTimer)
  /\ WF_vars(LCRunJob)
  /\ \A i \in 1..MaxItems :
       WF_vars(\E o \in {"fulfilled", "rejected"} : i \in DOMAIN items /\ LCSettle(i, o))

\* The first next() runs the body synchronously through the dispatch loop
\* and into the output loop: these steps need no timer and no worker.
FairSpecLimitFirst ==
  /\ SpecLimit
  /\ WF_vars(LCStart)
  /\ WF_vars(LCDispatch)
  /\ WF_vars(LCDispatchExit)

\* The consumer abandons the sequence: return() on the generator object.
\* Before the first next() the body never runs; at a yield the body is
\* resumed with a return completion and, having no try/finally, ends there.
\* The callbacks registered at lines 188-196 stay registered.
LCReturn ==
  /\ UNCHANGED <<mVars, tVars, gVars, sVars, pVars, cVars>>
  /\ pc \in {"created", "yielded"}
  /\ pc' = "closed"
  /\ UNCHANGED <<items, concurrency, iterator, inProgress, results, completed,
                 promise, jobs, errors, emitted, fulfilOrder, started>>

LCCloseNext ==
  \/ LCNext
  \/ LCReturn

SpecLimitClose == LCInit /\ [][LCCloseNext]_vars

\* ------------------------------------------------ limitConcurrency: claims
Count(s, v) == Cardinality({i \in DOMAIN s : s[i] = v})

Unresolved == {i \in DOMAIN items : promise[i] = "pending"}

Fulfilled == {i \in DOMAIN items : promise[i] = "fulfilled"}

SuccessCount(v) == Cardinality({i \in Fulfilled : Worker(items[i]) = v})

ResultValues == {Worker(x) : x \in ItemValues}

\* C1: the number of worker invocations started and not yet settled never
\* exceeds concurrency, and neither does the size of inProgress, also after
\* some invocations have failed.
C1_AtMostLimitInFlight ==
  /\ Unresolved \subseteq inProgress
  /\ Cardinality(inProgress) <= concurrency
  /\ Cardinality(Unresolved) <= concurrency

C1_Witness ==
  /\ concurrency >= 2
  /\ errors # <<>>
  /\ Cardinality(Unresolved) = concurrency

\* C2: with a limit of at least 1 and workers that all settle, a consumer
\* that keeps retrieving eventually sees the sequence complete.
C2_EventuallyDone == (concurrency >= 1) => <>(pc = "done")

\* C3: when concurrency exceeds the number of items, the initial dispatch
\* has started every item when the iterator reports done, and the dispatch
\* loop then ends.
C3_DispatchStartsAllThenEnds ==
  (concurrency > Len(items) /\ pc = "dispatch" /\ iterator.done)
    => (inProgress = DOMAIN items /\ ~DispatchGuard)

\* C4: no result is invented or duplicated at any time, and at completion
\* every item has been dispatched and settled and the multiset of emitted
\* values equals the multiset of fulfilled worker results.
C4_EmittedEqualsSuccesses ==
  /\ \A v \in Range(emitted \o results) \cup ResultValues :
       Count(emitted \o results, v) <= SuccessCount(v)
  /\ pc = "done" =>
       /\ \A i \in DOMAIN items : promise[i] \in {"fulfilled", "rejected"}
       /\ \A v \in Range(emitted) \cup ResultValues :
            Count(emitted, v) = SuccessCount(v)

C4_Witness ==
  /\ pc = "done"
  /\ errors # <<>>
  /\ Len(emitted) >= 2
  /\ emitted[1] = emitted[2]

\* C5: the step that handles a rejection frees the slot, starts the next
\* pending item if one remains, leaves the generator and the buffered and
\* emitted results untouched, and at completion the result of every
\* fulfilled item has been emitted.
C5_RejectionDoesNotHalt ==
  /\ [][Len(errors') > Len(errors) =>
          LET i == Head(jobs).id IN
            /\ i \notin inProgress'
            /\ pc' = pc /\ results' = results /\ emitted' = emitted
            /\ iterator.index < Len(items) =>
                 /\ iterator'.index = iterator.index + 1
                 /\ promise'[iterator'.index] = "pending"
                 /\ iterator'.index \in inProgress']_vars
  /\ [](pc = "done" => \A i \in Fulfilled : Count(emitted, Worker(items[i])) >= 1)

C5_Witness ==
  /\ pc = "done"
  /\ concurrency = 1
  /\ Len(items) >= 2
  /\ promise[1] = "rejected"
  /\ promise[2] = "fulfilled"
  /\ emitted = <<Worker(items[2])>>

\* a retrieval that polls forever: nothing in flight, nothing queued,
\* nothing buffered, and completed can no longer become true
Hung ==
  /\ pc = "sleep"
  /\ inProgress = {}
  /\ jobs = <<>>
  /\ results = <<>>
  /\ ~completed

\* C6: with concurrency < 1 no retrieval waits forever with no worker in
\* flight and no error surfaced.
C6_NoHangBelowOne == concurrency < 1 => ~Hung

\* C19: the results handed on so far (emitted, then buffered) are the
\* results of the fulfilled invocations in the order in which they
\* fulfilled, whatever the order of submission.
C19_CompletionOrder ==
  /\ Len(emitted) + Len(results) <= Len(fulfilOrder)
  /\ emitted \o results =
       [k \in 1..(Len(emitted) + Len(results)) |-> Worker(items[fulfilOrder[k]])]

C19_Witness ==
  /\ Len(emitted) >= 2
  /\ fulfilOrder[1] > fulfilOrder[2]
  /\ items[fulfilOrder[1]] # items[fulfilOrder[2]]
  /\ emitted[1] = Worker(items[fulfilOrder[1]])

\* C20: the step that processes a completion (a result is buffered or an
\* error logged) starts the next undispatched item if one remains; and
\* once the initial dispatch is over, while undispatched items remain,
\* inProgress holds exactly concurrency invocations.
C20_ImmediateBackfill ==
  /\ [][(Len(results') > Len(results) \/ Len(errors') > Len(errors)) =>
          (iterator.index < Len(items) =>
             /\ iterator'.index = iterator.index + 1
             /\ promise'[iterator'.index] = "pending"
             /\ iterator'.index \in inProgress'
             /\ Cardinality(inProgress') = Cardinality(inProgress))]_vars
  /\ []((pc \notin {"created", "dispatch"} /\ iterator.index < Len(items))
          => Cardinality(inProgress) = concurrency)

C20_Witness ==
  /\ concurrency = 1
  /\ Len(items) = 3
  /\ iterator.index = 3
  /\ Len(errors) = 1
  /\ Len(emitted) + Len(results) = 1
  /\ Cardinality(inProgress) = 1

\* C21: the sequence is complete only when every item has been dispatched,
\* no invocation is in flight or unsettled and the buffer of results is
\* empty; and the completed flag is never true while an invocation is in
\* flight.
C21_CompletionOnlyWhenDrained ==
  /\ pc = "done" =>
       /\ completed
       /\ iterator.index = Len(items)
       /\ results = <<>>
       /\ Len(emitted) = Cardinality(Fulfilled)
  /\ completed =>
       /\ iterator.done
       /\ inProgress = {}
       /\ Unresolved = {}

C21_Witness ==
  /\ pc = "done"
  /\ Len(items) = MaxItems
  /\ Len(emitted) >= 2
  /\ errors # <<>>

\* C22: with no items and a limit of at least 1, the first retrieval never
\* waits and never yields, no worker is invoked and nothing is emitted, and
\* the sequence completes.
C22_EmptyCompletesAtOnce ==
  (items = <<>> /\ concurrency >= 1) =>
    /\ [](/\ pc \in {"created", "dispatch", "done"}
          /\ emitted = <<>>
          /\ inProgress = {}
          /\ jobs = <<>>
          /\ errors = <<>>)
    /\ <>(pc = "done")

C22_Witness ==
  /\ items = <<>>
  /\ concurrency >= 1
  /\ pc = "done"
  /\ completed

\* C26: asyncOperation has been called once on each item the iterator has
\* handed out and on no other, whatever the order of fulfilments and
\* rejections; a step hands out at most the one next item; and a sequence
\* that is complete has started every item.
C26_EachItemStartedOnce ==
  /\ [](/\ \A i \in DOMAIN items :
             started[i] = IF i <= iterator.index THEN 1 ELSE 0
        /\ pc = "done" => \A i \in DOMAIN items : started[i] = 1)
  /\ [][iterator'.index \in {iterator.index, iterator.index + 1}]_vars

C26_Witness ==
  /\ Len(items) = MaxItems
  /\ concurrency = 2
  /\ iterator.index = MaxItems
  /\ errors # <<>>
  /\ results # <<>>
  /\ \A i \in DOMAIN items : started[i] = 1

\* C18: once the consumer has closed the sequence, no worker invocation is
\* started for an item that was not yet dispatched.
C18_NoDispatchAfterClose ==
  [][(pc = "closed") => (iterator'.index = iterator.index)]_vars

\* ========================================================= mergeAsyncIterators

\* the state of a limitConcurrency that was never created
LCIdle ==
  /\ items = <<>>
  /\ concurrency = 0
  /\ iterator = [index |-> 0, done |-> FALSE]
  /\ inProgress = {}
  /\ results = <<>>
  /\ completed = FALSE
  /\ promise = <<>>
  /\ jobs = <<>>
  /\ errors = <<>>
  /\ emitted = <<>>
  /\ fulfilOrder = <<>>
  /\ started = <<>>
  /\ pc = "none"

\* A source is an async generator that yields len values, or repeats them
\* for ever when cyclic (an endless source repeats a single value); the
\* k-th value of source s is SourceValue(s, k).
SourceShapes ==
  {sh \in [len : 0..MaxLen, cyclic : BOOLEAN] : sh.cyclic => sh.len = 1}

SourceValue(s, k) == 10 * s + k

\* the values of the finite sources: what a merge driven to completion
\* has to deliver, each once
FiniteValues(srcs) ==
  UNION {{SourceValue(s, k) : k \in 1..srcs[s].len} :
           s \in {t \in DOMAIN srcs : ~srcs[t].cyclic}}

MInit ==
  /\ LCIdle
  /\ TIdle
  /\ GIdle
  /\ SIdle
  /\ PIdle
  /\ CIdle
  /\ sources \in SeqsUpTo(SourceShapes, MaxSources)
  /\ srcPos = [s \in DOMAIN sources |-> 0]
  /\ srcOut = [s \in DOMAIN sources |-> 0]
  /\ iterators = [i \in DOMAIN sources |-> i]
  /\ pendingPromises = <<>>
  /\ index = 0
  /\ taken = [s \in DOMAIN sources |-> 0]
  /\ lastOut = <<0, 0>>
  /\ received = [v \in FiniteValues(sources) |-> 0]
  /\ srcFails = [s \in DOMAIN sources |-> FALSE]
  /\ srcReturned = [s \in DOMAIN sources |-> FALSE]
  /\ thrown = <<>>
  /\ mpc = "created"

\* the same call, with sources that may throw once their values are delivered
MFailInit ==
  /\ LCIdle
  /\ TIdle
  /\ GIdle
  /\ SIdle
  /\ PIdle
  /\ CIdle
  /\ sources \in SeqsUpTo(SourceShapes, MaxSources)
  /\ srcPos = [s \in DOMAIN sources |-> 0]
  /\ srcOut = [s \in DOMAIN sources |-> 0]
  /\ iterators = [i \in DOMAIN sources |-> i]
  /\ pendingPromises = <<>>
  /\ index = 0
  /\ taken = [s \in DOMAIN sources |-> 0]
  /\ lastOut = <<0, 0>>
  /\ received = [v \in FiniteValues(sources) |-> 0]
  /\ srcFails \in {f \in [DOMAIN sources -> BOOLEAN] :
                     \A s \in DOMAIN sources : f[s] => ~sources[s].cyclic}
  /\ srcReturned = [s \in DOMAIN sources |-> FALSE]
  /\ thrown = <<>>
  /\ mpc = "created"

\* the reason a failing source rejects with
SourceFailure(s) == 0 - s

\* what the oldest unresolved next() of source s resolves with
NextResult(s) ==
  IF sources[s].cyclic \/ srcPos[s] < sources[s].len
    THEN [st |-> "value", val |-> SourceValue(s, srcPos[s] + 1)]
    ELSE IF srcFails[s] /\ srcPos[s] = sources[s].len
           THEN [st |-> "rejected", val |-> SourceFailure(s)]
           ELSE [st |-> "done", val |-> 0]

\* the source's position after that resolution; len + 1 records that a
\* finite source has signalled completion or has thrown
NextPos(s) ==
  IF sources[s].cyclic
    THEN (srcPos[s] + 1) % sources[s].len
    ELSE IF srcPos[s] <= sources[s].len THEN srcPos[s] + 1 ELSE srcPos[s]

\* it.next(): the promise returned for a new retrieval on source s, queued
\* behind the out retrievals of s that are still unresolved.  The promise
\* may come back already resolved (eager): an async generator that runs off
\* its end, or a hand-written next() that awaits nothing, resolves it before
\* returning it.
NewRetrieval(s, out, eager) ==
  IF eager /\ out = 0
    THEN [src |-> s, ord |-> 0, st |-> NextResult(s).st, val |-> NextResult(s).val]
    ELSE [src |-> s, ord |-> out, st |-> "pending", val |-> 0]

\* lines 149-153: Promise.race over promise.then(...) of every entry.  The
\* reactions of the entries that are already resolved are queued in array
\* order, so the lowest such index wins; with none resolved the race waits.
\* A rejected entry takes the same number of hops through .then and wins
\* the race the same way.
RaceWinner(pp) ==
  IF \E k \in DOMAIN pp : pp[k].st # "pending"
    THEN CHOOSE k \in DOMAIN pp :
           /\ pp[k].st # "pending"
           /\ \A j \in DOMAIN pp : pp[j].st # "pending" => k <= j
    ELSE 0

\* Array.prototype.splice(index, 1)
\* (faulty variant: always removes the first element)
RemoveAt_First(seq, k) == Tail(seq)
RemoveAt(seq, k) == [j \in 1..(Len(seq) - 1) |-> IF j < k THEN seq[j] ELSE seq[j + 1]]

\* line 158: the iterator the next retrieval is issued on
\* (faulty variants: the iterator after the winner; the last iterator)
ReissueIndex_Neighbour == (index % Len(iterators)) + 1
ReissueIndex_Last == Len(iterators)
ReissueIndex == index

\* lines 147-153: the loop test and, when sources remain, the race set up
\* and awaited
\* (faulty variant: the iterators array is left as it was)
LoopPass_KeepIterators(pp, its) ==
  /\ pendingPromises' = pp
  /\ iterators' = iterators
  /\ IF Len(pp) > 0
       THEN /\ mpc' = "awaiting"
            /\ index' = RaceWinner(pp)
       ELSE /\ mpc' = "done"
            /\ index' = 0
LoopPass(pp, its) ==
  /\ pendingPromises' = pp
  /\ iterators' = its
  /\ IF Len(pp) > 0
       THEN /\ mpc' = "awaiting"
            /\ index' = RaceWinner(pp)
       ELSE /\ mpc' = "done"
            /\ index' = 0

\* the consumer's count of the values it received from source s; for an
\* endless source the count wraps with the source's period
Received(s) ==
  [taken EXCEPT ![s] = IF sources[s].cyclic THEN (@ + 1) % sources[s].len ELSE @ + 1]

\* the consumer's first next(): line 144 issues one retrieval per source
MStart ==
  /\ UNCHANGED <<lcVars, tVars, gVars, sVars, pVars, cVars>>
  /\ mpc = "created"
  /\ \E E \in SUBSET DOMAIN sources :
       /\ srcOut' = [s \in DOMAIN sources |-> IF s \in E THEN 0 ELSE 1]
       /\ srcPos' = [s \in DOMAIN sources |-> IF s \in E THEN NextPos(s) ELSE srcPos[s]]
       /\ LoopPass([i \in DOMAIN iterators |->
                      NewRetrieval(iterators[i], 0, iterators[i] \in E)],
                   iterators)
  /\ UNCHANGED <<sources, taken, lastOut, received, srcFails, srcReturned, thrown>>

\* source s resolves its oldest unresolved retrieval while the merge is
\* suspended; if the race is still undecided this retrieval wins it
MSourceResolve(s) ==
  /\ UNCHANGED <<lcVars, tVars, gVars, sVars, pVars, cVars>>
  /\ mpc \in {"awaiting", "yielded", "done", "threw", "closed"}
  /\ srcOut[s] > 0
  /\ LET r == NextResult(s)
         mine == {k \in DOMAIN pendingPromises :
                    pendingPromises[k].src = s /\ pendingPromises[k].st = "pending"}
         hit == {k \in mine : pendingPromises[k].ord = 0}
     IN /\ pendingPromises' =
             [k \in DOMAIN pendingPromises |->
                IF k \in hit
                  THEN [pendingPromises[k] EXCEPT !.st = r.st, !.val = r.val]
                  ELSE IF k \in mine
                         THEN [pendingPromises[k] EXCEPT !.ord = @ - 1]
                         ELSE pendingPromises[k]]
        /\ index' = IF mpc = "awaiting" /\ index = 0 /\ hit # {}
                      THEN CHOOSE k \in hit : TRUE
                      ELSE index
  /\ srcOut' = [srcOut EXCEPT ![s] = @ - 1]
  /\ srcPos' = [srcPos EXCEPT ![s] = NextPos(s)]
  /\ UNCHANGED <<sources, iterators, taken, lastOut, received, srcFails,
                 srcReturned, thrown, mpc>>

\* line 149: the awaited race rejected.  Nothing in the body catches, so
\* the generator ends and the consumer's next() rejects with the reason.
\* (faulty variant: the rejection is treated as the source's completion)
RaceRejected_Swallowed(r) ==
  /\ LoopPass(RemoveAt(pendingPromises, index), RemoveAt(iterators, index))
  /\ thrown' = thrown
RaceRejected(r) ==
  /\ thrown' = Append(thrown, r.val)
  /\ mpc' = "threw"
  /\ UNCHANGED <<pendingPromises, iterators, index>>

\* lines 149-164: the awaited race has settled and the generator resumes
MResume ==
  /\ UNCHANGED <<lcVars, tVars, gVars, sVars, pVars, cVars>>
  /\ mpc = "awaiting"
  /\ index # 0
  /\ LET r == pendingPromises[index] IN
       IF r.st = "value"
         THEN \* line 157: yield nextPromise.value
              /\ lastOut' = <<r.src, r.val>>
              /\ taken' = Received(r.src)
              /\ received' = [v \in DOMAIN received |->
                                IF v = r.val THEN received[v] + 1 ELSE received[v]]
              /\ mpc' = "yielded"
              /\ UNCHANGED <<pendingPromises, iterators, index, thrown>>
         ELSE IF r.st = "rejected"
                THEN /\ RaceRejected(r)
                     /\ UNCHANGED <<taken, lastOut, received>>
                ELSE \* lines 161-162, then the loop again
                     /\ LoopPass(RemoveAt(pendingPromises, index), RemoveAt(iterators, index))
                     /\ UNCHANGED <<taken, lastOut, received, thrown>>
  /\ UNCHANGED <<sources, srcPos, srcOut, srcFails, srcReturned>>

\* the consumer calls next() after a yield: line 158, then the loop again
MConsumerNext ==
  /\ UNCHANGED <<lcVars, tVars, gVars, sVars, pVars, cVars>>
  /\ mpc = "yielded"
  /\ \E eager \in BOOLEAN :
       LET s == iterators[ReissueIndex]
           now == eager /\ srcOut[s] = 0
       IN /\ srcOut' = [srcOut EXCEPT ![s] = IF now THEN @ ELSE @ + 1]
          /\ srcPos' = [srcPos EXCEPT ![s] = IF now THEN NextPos(s) ELSE @]
          /\ LoopPass([pendingPromises EXCEPT
                         ![index] = NewRetrieval(s, srcOut[s], eager)],
                      iterators)
  /\ UNCHANGED <<sources, taken, lastOut, received, srcFails, srcReturned, thrown>>

MNext ==
  \/ MStart
  \/ \E s \in DOMAIN sources : MSourceResolve(s)
  \/ MResume
  \/ MConsumerNext

SpecMerge == MInit /\ [][MNext]_vars

\* the consumer calls next() on the generator that ended by throwing: an
\* ended generator answers {done: true} and runs nothing
MNextAfterThrow ==
  /\ UNCHANGED <<lcVars, tVars, gVars, sVars, pVars, cVars>>
  /\ mpc = "threw"
  /\ mpc' = "over"
  /\ UNCHANGED <<sources, srcPos, srcOut, iterators, pendingPromises, index,
                 taken, lastOut, received, srcFails, srcReturned, thrown>>

\* The consumer abandons the merged sequence: return() on the generator
\* object.  Before the first next() the body never runs; at the yield of
\* line 157 the body is resumed with a return completion and ends there.
\* The body has no try/finally and contains no call of return() on a source.
MReturn ==
  /\ UNCHANGED <<lcVars, tVars, gVars, sVars, pVars, cVars>>
  /\ mpc \in {"created", "yielded"}
  /\ mpc' = "closed"
  /\ UNCHANGED <<sources, srcPos, srcOut, iterators, pendingPromises, index,
                 taken, lastOut, received, srcFails, srcReturned, thrown>>

MFailNext ==
  \/ MNext
  \/ MNextAfterThrow
  \/ MReturn

\* the merge over sources that may throw, with a consumer that may abandon it
SpecMergeFail == MFailInit /\ [][MFailNext]_vars

\* Every issued retrieval resolves, the event loop resumes the generator
\* and the consumer keeps retrieving.
FairSpecMerge ==
  /\ SpecMerge
  /\ WF_vars(MStart)
  /\ WF_vars(MResume)
  /\ WF_vars(MConsumerNext)
  /\ \A s \in 1..MaxSources : WF_vars(s \in DOMAIN sources /\ MSourceResolve(s))

\* ---------------------------------------------- mergeAsyncIterators: claims
Finite(s) == ~sources[s].cyclic

\* source s has signalled completion
Signalled(s) == Finite(s) /\ srcPos[s] = sources[s].len + 1

\* C7: no value is delivered twice; the merge has completed exactly when
\* every source was removed from the active set, which happens only after
\* that source signalled completion; and at completion the received values
\* are multiset-equal to the concatenation of all sources' values.
C7_MergeMultisetAndCompletion ==
  /\ \A v \in DOMAIN received : received[v] <= 1
  /\ (mpc = "done") <=> (mpc # "created" /\ iterators = <<>>)
  /\ \A s \in DOMAIN sources : s \notin Range(iterators) => Signalled(s)
  /\ mpc = "done" => \A v \in DOMAIN received : received[v] = 1

C7_Witness ==
  /\ mpc = "done"
  /\ Len(sources) = MaxSources
  /\ \A s \in DOMAIN sources : sources[s].len = MaxLen

\* C8: a source never has more than one unresolved next(), the unresolved
\* retrieval is the one entry pendingPromises holds for it, and no
\* retrieval is outstanding on a source that has signalled completion.
C8_OneOutstandingPerSource ==
  \A s \in DOMAIN sources :
    /\ srcOut[s] <= 1
    /\ Cardinality({k \in DOMAIN pendingPromises : pendingPromises[k].src = s}) <= 1
    /\ Cardinality({k \in DOMAIN pendingPromises :
                      pendingPromises[k].src = s /\ pendingPromises[k].st = "pending"})
         = srcOut[s]
    /\ Signalled(s) => srcOut[s] = 0

C8_Witness ==
  /\ mpc = "awaiting"
  /\ \E s \in DOMAIN sources : taken[s] >= 1 /\ srcOut[s] = 1
  /\ \E s \in DOMAIN sources : taken[s] = 0 /\ srcOut[s] = 0 /\ srcPos[s] = 1

\* a retrieval of source s has resolved with a value the consumer has not
\* received yet
ReadyValue(s) ==
  /\ s \in DOMAIN sources
  /\ \E k \in DOMAIN pendingPromises :
       /\ pendingPromises[k].src = s
       /\ pendingPromises[k].st = "value"
       /\ ~(mpc = "yielded" /\ k = index)

JustEmitted(s) == mpc = "yielded" /\ lastOut[1] = s

\* C9: a value a source's retrieval has resolved with is eventually emitted
\* to a consumer that keeps retrieving.
C9_NoStarvation ==
  \A s \in 1..MaxSources : [](ReadyValue(s) => <>JustEmitted(s))

\* C10: the k-th value the consumer receives from a finite source is the
\* k-th value that source produced.
C10_SourceOrderPreserved ==
  (mpc = "yielded" /\ Finite(lastOut[1]))
    => /\ taken[lastOut[1]] \in 1..sources[lastOut[1]].len
       /\ lastOut[2] = SourceValue(lastOut[1], taken[lastOut[1]])

C10_Witness ==
  /\ mpc = "yielded"
  /\ \E s, t \in DOMAIN sources :
       /\ t < s
       /\ lastOut = <<t, SourceValue(t, 2)>>
       /\ taken[s] >= 1

\* source s has thrown: its rejected retrieval is the last thing it produced
Failed(s) == srcFails[s] /\ srcPos[s] = sources[s].len + 1

\* no next() is issued on source s in this step
NoRetrievalIssued(s) ==
  /\ srcOut'[s] <= srcOut[s]
  /\ srcPos'[s] # srcPos[s] => srcOut'[s] < srcOut[s]

\* the generator resumes with a race won by a retrieval that resolved with
\* completion
CompletionTaken ==
  /\ mpc = "awaiting"
  /\ index # 0
  /\ pendingPromises[index].st = "done"
  /\ srcOut' = srcOut
  /\ <<pendingPromises, mpc>>' # <<pendingPromises, mpc>>

\* C27: pendingPromises[k] is always a retrieval of iterators[k]; a source
\* that is no longer in the active set has no retrieval outstanding and
\* gets none; and the step that takes a completion emits nothing and
\* removes exactly the completed source from both arrays, the others
\* keeping their order.
C27_CompletionRemovesSource ==
  /\ [](/\ mpc # "created" => Len(pendingPromises) = Len(iterators)
        /\ \A k \in DOMAIN pendingPromises : pendingPromises[k].src = iterators[k]
        /\ \A s \in DOMAIN sources : s \notin Range(iterators) => srcOut[s] = 0)
  /\ [][(mpc # "created") =>
          \A s \in DOMAIN sources :
            s \notin Range(iterators) => (s \notin Range(iterators') /\ NoRetrievalIssued(s))]_vars
  /\ [][CompletionTaken =>
          (/\ UNCHANGED <<taken, lastOut, received>>
           /\ iterators' = [j \in 1..(Len(iterators) - 1) |->
                               IF j < index THEN iterators[j] ELSE iterators[j + 1]]
           /\ pendingPromises' = [j \in 1..(Len(pendingPromises) - 1) |->
                                     IF j < index THEN pendingPromises[j]
                                                  ELSE pendingPromises[j + 1]])]_vars

C27_Witness ==
  /\ Len(sources) = 2
  /\ iterators = <<2>>
  /\ mpc = "yielded"
  /\ lastOut[1] = 2
  /\ taken[2] >= 2
  /\ taken[1] >= 1

\* C11: a source's rejection is surfaced by the merged sequence exactly
\* once, with the source's own reason, and is never taken for completion;
\* after it no next() is issued on any source, the failed one has none
\* outstanding, and a later retrieval reports completion without
\* surfacing anything again.
C11_FailureSurfacesOnce ==
  /\ [](/\ Len(thrown) <= 1
        /\ (thrown # <<>>) <=> (mpc \in {"threw", "over"})
        /\ thrown # <<>> =>
             \E s \in DOMAIN sources :
               /\ Failed(s)
               /\ thrown[1] = SourceFailure(s)
               /\ srcOut[s] = 0
        /\ mpc = "done" => \A s \in DOMAIN sources : ~Failed(s))
  /\ [][(mpc \in {"threw", "over"}) =>
          (/\ thrown' = thrown
           /\ mpc' \in {"threw", "over"}
           /\ UNCHANGED <<taken, lastOut, received>>
           /\ \A s \in DOMAIN sources : NoRetrievalIssued(s))]_vars

C11_Witness ==
  /\ mpc = "over"
  /\ Len(sources) = 2
  /\ thrown = <<SourceFailure(2)>>
  /\ taken[1] >= 1
  /\ taken[2] >= 1

\* C17: when the consumer closes a merge that has started, return() has
\* been called on every source still in the active set and none of them is
\* left with a retrieval, unresolved or resolved, that the merge holds and
\* will never consume.
C17_ReturnClosesSources ==
  (mpc = "closed" /\ pendingPromises # <<>>) =>
    \A k \in DOMAIN iterators :
      /\ srcReturned[iterators[k]]
      /\ srcOut[iterators[k]] = 0
      /\ k # index => pendingPromises[k].st \notin {"pending", "value"}

\* ======================================= filterAsyncIterator / mapAsyncIterator

\* the values a source may yield
SourceItems == {1, 2}

\* the mapper of the tests: async value => value * 2
Mapper(x) == x * 2

\* the predicate of the tests: x => x % 2 === 0
Predicate(x) == x % 2 = 0

\* the reason the mapper / predicate fails with on item x, and the reason a
\* failing source rejects with after n values
FnFailure(x) == 0 - x
SourceThrows(n) == 0 - (10 + n)

TInit ==
  /\ LCIdle
  /\ MIdle
  /\ GIdle
  /\ SIdle
  /\ PIdle
  /\ CIdle
  /\ tkind \in {"map", "filter"}
  /\ tvals \in SeqsUpTo(SourceItems, MaxLen)
  /\ tSrcFails \in BOOLEAN
  /\ tbad \in {0} \cup SourceItems
  /\ tretr = 0
  /\ tpos = 0
  /\ tsrcReturned = 0
  /\ tq = <<>>
  /\ titem = 0
  /\ tcalls = 0
  /\ tfnActive = 0
  /\ tout = <<>>
  /\ tthrown = <<>>
  /\ tabandoned = FALSE
  /\ tlate = FALSE
  /\ tpc = "created"

\* next() calls on the source that have not settled
TSrcOut == tretr - tpos

\* A request of the consumer resumes the generator body only when the body
\* is suspended, at its start or at a yield; while the body runs or awaits,
\* the request waits in the queue.
\* (faulty variant: every request resumes the body at once)
ResumesOnRequest_Always == tpc # "done"
ResumesOnRequest == tpc \in {"created", "yielded"}

\* The suspended generator takes up request r, q being the queue with r at
\* its head.  next: the for await of line 44 / 56 calls source.next().
\* return before the body ever ran: the generator just ends.  return at the
\* yield of line 46 / 57: the for await is left abruptly, so it calls
\* source.return() and awaits it.
ResumeWith(r, q, atStart) ==
  IF r = "next"
    THEN /\ tretr' = tretr + 1
         /\ tpc' = "awaitSrc"
         /\ tq' = q
         /\ UNCHANGED <<tsrcReturned, tabandoned, tlate>>
    ELSE IF atStart
           THEN /\ tpc' = "done"
                /\ tq' = <<>>
                /\ tabandoned' = TRUE
                /\ UNCHANGED <<tretr, tsrcReturned, tlate>>
           ELSE /\ tsrcReturned' = tsrcReturned + 1
                /\ tpc' = "closing"
                /\ tq' = q
                /\ tabandoned' = TRUE
                /\ UNCHANGED <<tretr, tlate>>

\* The generator ends, normally or by throwing reasons: the request at the
\* head of the queue is answered, and the requests behind it are answered
\* {done: true} by the ended generator.
End(reasons) ==
  /\ tthrown' = tthrown \o reasons
  /\ tpc' = "done"
  /\ tq' = <<>>
  /\ tlate' = (tlate \/ \E j \in 2..Len(tq) : tq[j] = "next")

\* the consumer calls next() or return() on the combinator
TRequest(r) ==
  /\ UNCHANGED <<lcVars, mVars, gVars, sVars, pVars, cVars>>
  /\ tpc # "none"
  /\ Len(tq) < MaxRequests
  /\ ~tabandoned
  /\ "return" \notin Range(tq)
  /\ IF tpc = "done"
       THEN /\ r = "next"
            /\ tlate' = TRUE
            /\ UNCHANGED <<tretr, tsrcReturned, tq, tabandoned, tpc>>
       ELSE IF ResumesOnRequest
              THEN ResumeWith(r, Append(tq, r), tpc = "created")
              ELSE /\ tq' = Append(tq, r)
                   /\ UNCHANGED <<tretr, tsrcReturned, tabandoned, tlate, tpc>>
  /\ UNCHANGED <<tkind, tvals, tSrcFails, tbad, tpos, titem, tcalls, tfnActive,
                 tout, tthrown>>

\* lines 44-45 / 56-57: the source's next() settles and the for await goes
\* on: with a value the mapper / predicate is called on it; with done the
\* loop and the body end; with a rejection the body throws (the for await
\* does not call return() on a source whose next() failed)
TSourceSettle ==
  /\ UNCHANGED <<lcVars, mVars, gVars, sVars, pVars, cVars>>
  /\ tpc = "awaitSrc"
  /\ TSrcOut > 0
  /\ tpos' = tpos + 1
  /\ IF tpos < Len(tvals)
       THEN /\ titem' = tvals[tpos + 1]
            /\ tcalls' = tcalls + 1
            /\ tfnActive' = tfnActive + 1
            /\ tpc' = "awaitFn"
            /\ UNCHANGED <<tq, tthrown, tlate>>
       ELSE /\ End(IF tSrcFails THEN <<SourceThrows(Len(tvals))>> ELSE <<>>)
            /\ UNCHANGED <<titem, tcalls, tfnActive>>
  /\ UNCHANGED <<tkind, tvals, tSrcFails, tbad, tretr, tsrcReturned, tout, tabandoned>>

\* lines 46 / 57: yield v.  The oldest request is answered with v; if
\* another request is waiting the body goes on with it at once, otherwise
\* the generator stays suspended at the yield.
Yield(v) ==
  /\ tout' = Append(tout, v)
  /\ tthrown' = tthrown
  /\ IF Len(tq) > 1
       THEN ResumeWith(tq[2], Tail(tq), FALSE)
       ELSE /\ tpc' = "yielded"
            /\ tq' = <<>>
            /\ UNCHANGED <<tretr, tsrcReturned, tabandoned, tlate>>

\* line 57: the value mapAsyncIterator yields for item
\* (faulty variant: the item is yielded as it came)
Mapped_Raw(item) == item
Mapped(item) == Mapper(item)

\* line 45: the predicate answered false; the for await takes the next item
\* (faulty variant: the sequence ends at the first discard)
AfterDiscard_Stop ==
  /\ End(<<>>)
  /\ UNCHANGED <<tretr, tsrcReturned, tout, tabandoned>>
AfterDiscard ==
  /\ tretr' = tretr + 1
  /\ tpc' = "awaitSrc"
  /\ UNCHANGED <<tsrcReturned, tq, tout, tthrown, tabandoned, tlate>>

\* lines 45 / 57: the mapper / predicate threw or its promise rejected.  The
\* loop body is left abruptly: the for await calls source.return(), awaits
\* it and then the body throws the reason.
\* (faulty variant: the failure is dropped and the loop takes the next item)
FnRejected_Skipped ==
  /\ tretr' = tretr + 1
  /\ tpc' = "awaitSrc"
  /\ UNCHANGED <<tsrcReturned, tq, tout, tthrown, tabandoned, tlate>>
FnRejected ==
  /\ tsrcReturned' = tsrcReturned + 1
  /\ tpc' = "closingThrow"
  /\ UNCHANGED <<tretr, tq, tout, tthrown, tabandoned, tlate>>

\* lines 45-46 / 57: the awaited mapper / predicate call settles
TFnSettle ==
  /\ UNCHANGED <<lcVars, mVars, gVars, sVars, pVars, cVars>>
  /\ tpc = "awaitFn"
  /\ tfnActive' = tfnActive - 1
  /\ IF titem = tbad
       THEN FnRejected
       ELSE IF tkind = "map"
              THEN Yield(Mapped(titem))
              ELSE IF Predicate(titem) THEN Yield(titem) ELSE AfterDiscard
  /\ UNCHANGED <<tkind, tvals, tSrcFails, tbad, tpos, titem, tcalls>>

\* the awaited source.return() settles and the generator ends: by the
\* consumer's return(), or by throwing the mapper's / predicate's reason
TCloseSettle ==
  /\ UNCHANGED <<lcVars, mVars, gVars, sVars, pVars, cVars>>
  /\ tpc \in {"closing", "closingThrow"}
  /\ End(IF tpc = "closingThrow" THEN <<FnFailure(titem)>> ELSE <<>>)
  /\ UNCHANGED <<tkind, tvals, tSrcFails, tbad, tretr, tpos, tsrcReturned, titem,
                 tcalls, tfnActive, tout, tabandoned>>

TNext ==
  \/ \E r \in {"next", "return"} : TRequest(r)
  \/ TSourceSettle
  \/ TFnSettle
  \/ TCloseSettle

SpecTransform == TInit /\ [][TNext]_vars

\* ------------------------------ filterAsyncIterator / mapAsyncIterator: claims

\* the sequence ran to its end: nothing failed and the consumer did not
\* abandon it
RanToEnd == tpc = "done" /\ tthrown = <<>> /\ ~tabandoned

\* the source has thrown; the last call of the mapper / predicate failed
SourceThrew == tSrcFails /\ tpos = Len(tvals) + 1

FnThrew == tcalls >= 1 /\ titem = tbad /\ tfnActive = 0

\* C12: what mapAsyncIterator has emitted is, position by position, twice
\* the source's values, and a sequence that ran to its end has emitted as
\* many values as the source has.
C12_MapElementwise ==
  tkind = "map" =>
    /\ Len(tout) <= Len(tvals)
    /\ \A k \in DOMAIN tout : tout[k] = 2 * tvals[k]
    /\ RanToEnd => Len(tout) = Len(tvals)

C12_Witness ==
  /\ tkind = "map"
  /\ RanToEnd
  /\ Len(tout) = MaxLen
  /\ tvals[1] # tvals[2]

\* the source's values that satisfy the predicate, in their original order
Kept == SelectSeq(tvals, Predicate)

\* C13: what filterAsyncIterator has emitted is a prefix of the even values
\* of the source in their original order, and all of them once the sequence
\* ran to its end; a discard answers no request: the same retrieval goes on
\* with the next source item.
C13_FilterSubsequence ==
  /\ [](tkind = "filter" =>
          /\ Len(tout) <= Len(Kept)
          /\ \A k \in DOMAIN tout : tout[k] = Kept[k]
          /\ RanToEnd => tout = Kept)
  /\ [][(tkind = "filter" /\ tpc = "awaitFn" /\ tfnActive' < tfnActive
           /\ titem # tbad /\ ~Predicate(titem)) =>
          (/\ tpc' = "awaitSrc"
           /\ tretr' = tretr + 1
           /\ tq' = tq
           /\ tout' = tout)]_vars

C13_Witness ==
  /\ tkind = "filter"
  /\ RanToEnd
  /\ tvals = <<1, 1, 2>>
  /\ tout = <<2>>
  /\ ~tlate

\* C14: a failure of the source or of the mapper / predicate is surfaced
\* once, with its own reason, and ends the sequence; an ended sequence
\* emits nothing, surfaces nothing and touches its source no more.
C14_FailureClosesSequence ==
  /\ [](/\ Len(tthrown) <= 1
        /\ tthrown # <<>> => tpc = "done"
        /\ (tpc = "done" /\ SourceThrew) => tthrown = <<SourceThrows(Len(tvals))>>
        /\ (tpc = "done" /\ FnThrew) => tthrown = <<FnFailure(tbad)>>)
  /\ [][(tpc = "done") =>
          (/\ tpc' = "done"
           /\ tout' = tout
           /\ tthrown' = tthrown
           /\ tretr' = tretr
           /\ tsrcReturned' = tsrcReturned)]_vars

C14_Witness ==
  /\ tpc = "done"
  /\ tbad # 0
  /\ tthrown = <<FnFailure(tbad)>>
  /\ Len(tout) >= 1
  /\ tlate

\* C15: in mapAsyncIterator at most one of source retrieval and mapper call
\* is under way at any time, and the n-th retrieval and the n-th mapper
\* call start only after n - 1 values have been emitted, however many
\* requests the consumer has queued.
C15_StrictlySequential ==
  tkind = "map" =>
    /\ TSrcOut + tfnActive <= 1
    /\ tretr <= Len(tout) + 1
    /\ tcalls <= Len(tout) + 1

C15_Witness ==
  /\ tkind = "map"
  /\ tpc = "awaitFn"
  /\ Len(tq) = MaxRequests
  /\ Len(tout) >= 1

\* C16: when the consumer's return() has ended the sequence before it was
\* complete, return() has been called on the source.
C16_ReturnClosesSource ==
  (tpc = "done" /\ tabandoned) => tsrcReturned >= 1

\* ==== createBasicAsyncIterator / createDelayedAsyncIterator /
\* ==== createCancellableAsyncIterator

\* line 16: i < 5, and line 107: i < 100
DelayedCount == 5
CancelLimit == 100

\* lines 9-11: the values wrapped by the three yield statements
BasicValues == <<1, 2, 3>>

GInit ==
  /\ LCIdle
  /\ MIdle
  /\ TIdle
  /\ SIdle
  /\ PIdle
  /\ CIdle
  /\ gkind \in {"basic", "delayed", "cancellable"}
  /\ gi = 0
  /\ gcancelled = FALSE
  /\ gcancelAt = 0 - 1
  /\ gq = 0
  /\ gout = <<>>
  /\ gpc = "created"
  /\ greturned = FALSE
  /\ gcleanups = 0

\* the operand of the yield reached with loop variable i: a promise in
\* createBasicAsyncIterator (lines 9-11), the plain i otherwise (lines 19, 109)
YieldOperand(kind, i) ==
  IF kind = "basic"
    THEN [promise |-> TRUE, val |-> BasicValues[i + 1]]
    ELSE [promise |-> FALSE, val |-> i]

\* yield in an async generator awaits its operand: the consumer receives
\* what the promise fulfilled with
Unwrap(op) == op.val

\* lines 16 / 107: the loop test; for createBasicAsyncIterator, whether a
\* yield statement is left
\* (faulty variants: the cancelled flag is not consulted; the last round is
\* left out)
LoopTest_IgnoreCancel(i) ==
  IF gkind = "basic" THEN i < Len(BasicValues)
  ELSE IF gkind = "delayed" THEN i < DelayedCount
  ELSE i < CancelLimit
LoopTest_Short(i) ==
  IF gkind = "basic" THEN i + 1 < Len(BasicValues)
  ELSE IF gkind = "delayed" THEN i + 1 < DelayedCount
  ELSE ~gcancelled /\ i + 1 < CancelLimit
LoopTest(i) ==
  IF gkind = "basic" THEN i < Len(BasicValues)
  ELSE IF gkind = "delayed" THEN i < DelayedCount
  ELSE ~gcancelled /\ i < CancelLimit

\* lines 16 / 107: i++
\* (faulty variant: i += 2)
NextIndex_Skip(i) == i + 2
NextIndex(i) == i + 1

\* lines 106-113: the try statement is left, by the loop's end ("exit") or
\* by a return() resumed at the yield ("return"), n runs of the finally
\* block having been made; only createCancellableAsyncIterator has one
\* (faulty variant: the cleanup follows the loop in place of a finally block)
Finally_AfterLoop(n, path) ==
  IF gkind = "cancellable" /\ path = "exit" THEN n + 1 ELSE n
Finally(n, path) == IF gkind = "cancellable" THEN n + 1 ELSE n

\* The suspended generator takes up a next() request, q requests being
\* unanswered with it: from a yield the loop variable advances, the loop
\* test is made and the body either awaits (the timer of lines 18 / 108,
\* or the promise a basic yield wraps) or ends, and an ended generator
\* answers every request.
GResume(fromStart, q) ==
  LET i2 == IF fromStart THEN gi ELSE NextIndex(gi) IN
    /\ gi' = i2
    /\ IF LoopTest(i2)
         THEN /\ gpc' = "await"
              /\ gq' = q
              /\ gcleanups' = gcleanups
         ELSE /\ gpc' = "done"
              /\ gq' = 0
              /\ gcleanups' = Finally(gcleanups, "exit")

\* the consumer calls next()
GRequest ==
  /\ UNCHANGED <<lcVars, mVars, tVars, sVars, pVars, cVars>>
  /\ gpc \notin {"none", "done"}
  /\ gq < MaxRequests
  /\ ~greturned
  /\ IF gpc \in {"created", "yielded"}
       THEN GResume(gpc = "created", 1)
       ELSE /\ gq' = gq + 1
            /\ UNCHANGED <<gi, gpc, gcleanups>>
  /\ UNCHANGED <<gkind, gcancelled, gcancelAt, gout, greturned>>

\* the awaited timer or promise settles and the yield is reached: the
\* oldest request is answered with the value, and the body goes on at once
\* if another request is waiting; a waiting return() ends the body at the
\* yield, through the finally block
GSettle ==
  /\ UNCHANGED <<lcVars, mVars, tVars, sVars, pVars, cVars>>
  /\ gpc = "await"
  /\ gout' = Append(gout, Unwrap(YieldOperand(gkind, gi)))
  /\ IF gq > 1
       THEN GResume(FALSE, gq - 1)
       ELSE IF greturned
              THEN /\ gpc' = "done"
                   /\ gcleanups' = Finally(gcleanups, "return")
                   /\ gq' = 0
                   /\ gi' = gi
              ELSE /\ gpc' = "yielded"
                   /\ gq' = 0
                   /\ gi' = gi
                   /\ gcleanups' = gcleanups
  /\ UNCHANGED <<gkind, gcancelled, gcancelAt, greturned>>

\* line 118: cancel()
GCancel ==
  /\ UNCHANGED <<lcVars, mVars, tVars, sVars, pVars, cVars>>
  /\ gkind = "cancellable"
  /\ gpc # "done"
  /\ ~gcancelled
  /\ gcancelled' = TRUE
  /\ gcancelAt' = Len(gout)
  /\ UNCHANGED <<gkind, gi, gq, gout, gpc, greturned, gcleanups>>

GNext ==
  \/ GRequest
  \/ GSettle
  \/ GCancel

SpecGen == GInit /\ [][GNext]_vars

\* timers fire, promises settle, and the consumer keeps retrieving
FairSpecGen ==
  /\ SpecGen
  /\ WF_vars(GRequest)
  /\ WF_vars(GSettle)

\* the consumer calls return(): a generator that never started ends
\* without running its body, one suspended at a yield leaves the try
\* statement through the finally block, and while the body runs the request
\* waits behind the next() requests made before it
GReturn ==
  /\ UNCHANGED <<lcVars, mVars, tVars, sVars, pVars, cVars>>
  /\ gpc \notin {"none", "done"}
  /\ ~greturned
  /\ greturned' = TRUE
  /\ IF gpc = "created"
       THEN /\ gpc' = "done"
            /\ gcleanups' = gcleanups
       ELSE IF gpc = "yielded"
              THEN /\ gpc' = "done"
                   /\ gcleanups' = Finally(gcleanups, "return")
              ELSE UNCHANGED <<gpc, gcleanups>>
  /\ UNCHANGED <<gkind, gi, gcancelled, gcancelAt, gq, gout>>

\* a consumer that may also close the iterator early
GCloseNext ==
  \/ GRequest
  \/ GSettle
  \/ GCancel
  \/ GReturn

SpecGenClose == GInit /\ [][GCloseNext]_vars

\* ---------------------------------- basic / delayed / cancellable: claims

\* C23: the cancellable iterator emits 0, 1, 2, ... in order; after cancel()
\* at most one more value is emitted and the iterator completes; cancel()
\* before the first retrieval leaves nothing emitted for ever.
C23_CancelStopsAfterOneMore ==
  /\ [](gkind = "cancellable" =>
          /\ \A k \in DOMAIN gout : gout[k] = k - 1
          /\ gcancelAt >= 0 => Len(gout) <= gcancelAt + 1)
  /\ []((gcancelled /\ gpc = "created") => [](gout = <<>>))
  /\ (gcancelled ~> (gpc = "done"))

C23_Witness ==
  /\ gkind = "cancellable"
  /\ gpc = "done"
  /\ gcancelAt = 2
  /\ gout = <<0, 1, 2>>

\* C24: the delayed iterator emits 0, 1, 2, 3, 4 in that order and then
\* completes.
C24_DelayedEmitsZeroToFour ==
  gkind = "delayed" =>
    /\ [](/\ Len(gout) <= 5
          /\ \A k \in DOMAIN gout : gout[k] = k - 1
          /\ gpc = "done" => gout = <<0, 1, 2, 3, 4>>)
    /\ <>(gpc = "done")

C24_Witness ==
  /\ gkind = "delayed"
  /\ gpc = "done"
  /\ gout = <<0, 1, 2, 3, 4>>

\* C25: the basic iterator emits the numbers 1, 2, 3, not promises, in
\* that order and then completes.
C25_BasicEmitsOneTwoThree ==
  gkind = "basic" =>
    /\ [](/\ Len(gout) <= 3
          /\ \A k \in DOMAIN gout : gout[k] = k
          /\ gpc = "done" => gout = <<1, 2, 3>>)
    /\ <>(gpc = "done")

C25_Witness ==
  /\ gkind = "basic"
  /\ gpc = "done"
  /\ gout = <<1, 2, 3>>

\* C32: the cancellable iterator runs its finally block exactly once when
\* it terminates, whether the loop ran out after 100 values, cancel() ended
\* it, or the consumer's return() closed it after a retrieval had been made
\* (a return() before the first retrieval ends it without entering the
\* body); the block never runs while the iterator can still emit, and
\* never a second time.
C32_CleanupExactlyOnce ==
  /\ []((gkind = "cancellable" /\ gpc # "done") => gcleanups = 0)
  /\ [][(gkind = "cancellable" /\ gpc # "done" /\ gpc' = "done") =>
          gcleanups' = IF gpc = "created" /\ greturned' THEN 0 ELSE 1]_vars
  /\ [][(gkind = "cancellable" /\ gpc = "done") =>
          (gcleanups' = gcleanups /\ gout' = gout)]_vars

C32_Witness ==
  /\ gkind = "cancellable"
  /\ gpc = "done"
  /\ greturned
  /\ ~gcancelled
  /\ gcleanups = 1
  /\ gout = <<0, 1>>

\* ============================================================ ManualApiStream
\* (src/unnamed/part_002)

\* line 26: counter < 5
ChunkCount == 5

\* lines 28-30 and 34: the results the producer pushes
Chunk(c) == [done |-> FALSE, id |-> c]
DoneSignal == [done |-> TRUE, id |-> 0 - 1]

\* the state after construction: the constructor has called startFetching,
\* which runs up to its first await (line 27)
SInit ==
  /\ LCIdle
  /\ MIdle
  /\ TIdle
  /\ GIdle
  /\ PIdle
  /\ CIdle
  /\ squeue = <<>>
  /\ swaiting = FALSE
  /\ sfinished = FALSE
  /\ sfetching = TRUE
  /\ scounter = 0
  /\ sppc = "timer"
  /\ spending = FALSE
  /\ sgot = <<>>
  /\ scancelled = FALSE
  /\ scalls = 0
  /\ swho = 0
  /\ scallOf = <<>>

\* the part of the state _push works on
StreamState ==
  [queue |-> squeue, waiting |-> swaiting, pending |-> spending, got |-> sgot,
   who |-> swho, callOf |-> scallOf]

SetStream(st) ==
  /\ squeue' = st.queue
  /\ swaiting' = st.waiting
  /\ spending' = st.pending
  /\ sgot' = st.got
  /\ swho' = st.who
  /\ scallOf' = st.callOf

\* _push (lines 46-57): hand the result to the waiting next() call, or queue it
\* (faulty variants: unshift in place of push; the waiting call is ignored)
Push_Front(st, r) ==
  IF st.waiting
    THEN [st EXCEPT !.waiting = FALSE, !.pending = FALSE, !.got = Append(@, r),
                    !.who = 0, !.callOf = Append(@, st.who)]
    ELSE [st EXCEPT !.queue = <<r>> \o @]
Push_QueueOnly(st, r) == [st EXCEPT !.queue = Append(@, r)]
Push(st, r) ==
  IF st.waiting
    THEN [st EXCEPT !.waiting = FALSE, !.pending = FALSE, !.got = Append(@, r),
                    !.who = 0, !.callOf = Append(@, st.who)]
    ELSE [st EXCEPT !.queue = Append(@, r)]

\* lines 26-35, 41: the timer of line 27 fires; the chunk is pushed, the
\* counter advances and the loop test is made; when it fails the done
\* signal is pushed and the flags are set
STimer ==
  /\ UNCHANGED <<lcVars, mVars, tVars, gVars, pVars, cVars>>
  /\ sppc = "timer"
  /\ scounter' = scounter + 1
  /\ IF scounter + 1 < ChunkCount /\ ~sfinished
       THEN /\ SetStream(Push(StreamState, Chunk(scounter)))
            /\ UNCHANGED <<sfinished, sfetching, sppc>>
       ELSE /\ SetStream(Push(Push(StreamState, Chunk(scounter)), DoneSignal))
            /\ sfinished' = TRUE
            /\ sfetching' = FALSE
            /\ sppc' = "finished"
  /\ UNCHANGED <<scancelled, scalls>>

\* how many of the consumer's calls resolved with done: true
DonesGot == Cardinality({k \in DOMAIN sgot : sgot[k].done})

\* line 83: this.waitingResolver = resolve, the resolve of call c, when the
\* field held the resolve of call who (0: null)
\* (faulty variant: a resolver already stored is kept)
StoreResolver_KeepFirst(who, c) == IF who # 0 THEN who ELSE c
StoreResolver(who, c) == c

\* the body of next() (lines 60-88), run by call number scalls + 1
CallNext ==
  /\ scalls' = scalls + 1
  /\ IF Len(squeue) > 0
       THEN /\ sgot' = Append(sgot, Head(squeue))
            /\ scallOf' = Append(scallOf, scalls + 1)
            /\ squeue' = Tail(squeue)
            /\ UNCHANGED <<swaiting, spending, swho>>
       ELSE IF sfinished
              THEN /\ sgot' = Append(sgot, DoneSignal)
                   /\ scallOf' = Append(scallOf, scalls + 1)
                   /\ UNCHANGED <<squeue, swaiting, spending, swho>>
              ELSE /\ swaiting' = TRUE
                   /\ spending' = TRUE
                   /\ swho' = StoreResolver(swho, scalls + 1)
                   /\ UNCHANGED <<squeue, sgot, scallOf>>
  /\ UNCHANGED <<sfinished, sfetching, scounter, sppc, scancelled>>

\* next() (lines 60-88), called by a consumer that has no call outstanding
SNext ==
  /\ UNCHANGED <<lcVars, mVars, tVars, gVars, pVars, cVars>>
  /\ sppc # "none"
  /\ ~spending
  /\ DonesGot <= MaxAfterDone
  /\ CallNext

\* the calls of next() whose promise has not resolved and whose resolve is
\* not the one stored in this.waitingResolver
Orphans == {c \in 1..scalls : c # swho /\ c \notin Range(scallOf)}

\* next() (lines 60-88), called while an earlier call is still waiting
SNextWhileWaiting ==
  /\ UNCHANGED <<lcVars, mVars, tVars, gVars, pVars, cVars>>
  /\ sppc # "none"
  /\ spending
  /\ Cardinality(Orphans) < MaxOverlap
  /\ CallNext

\* cancelStream() (lines 95-104)
SCancel ==
  /\ UNCHANGED <<lcVars, mVars, tVars, gVars, pVars, cVars>>
  /\ sppc # "none"
  /\ ~scancelled
  /\ scancelled' = TRUE
  /\ sfinished' = TRUE
  /\ IF swaiting
       THEN /\ sgot' = Append(sgot, DoneSignal)
            /\ scallOf' = Append(scallOf, swho)
            /\ swho' = 0
            /\ swaiting' = FALSE
            /\ spending' = FALSE
       ELSE UNCHANGED <<sgot, swaiting, spending, swho, scallOf>>
  /\ UNCHANGED <<squeue, sfetching, scounter, sppc, scalls>>

SStreamNext ==
  \/ STimer
  \/ SNext
  \/ SCancel

SpecStream == SInit /\ [][SStreamNext]_vars

\* the timer of line 27 fires, and the consumer calls next() again once
\* its previous call has resolved
FairSpecStream ==
  /\ SpecStream
  /\ WF_vars(STimer)
  /\ WF_vars(SNext)

\* a consumer that also calls next() without awaiting its previous call
SOverlapNext ==
  \/ STimer
  \/ SNext
  \/ SNextWhileWaiting
  \/ SCancel

SpecStreamOverlap == SInit /\ [][SOverlapNext]_vars

\* ----------------------------------------------------- ManualApiStream: claims

\* C28: after a call of the consumer has resolved with done: true, no
\* later call resolves with a chunk.
C28_DoneIsFinal ==
  \A j, k \in DOMAIN sgot : (j < k /\ sgot[j].done) => sgot[k].done

\* C29: as long as cancelStream() has not been called, the k-th result the
\* consumer received is chunk k - 1 for k up to 5 and done after that; and
\* unless the stream is cancelled the consumer does receive the five
\* chunks and done.
C29_ChunksInOrderOnce ==
  /\ [](~scancelled =>
          \A k \in DOMAIN sgot :
            sgot[k] = IF k <= 5 THEN [done |-> FALSE, id |-> k - 1] ELSE DoneSignal)
  /\ (<>scancelled \/ <>(Len(sgot) >= 6))

C29_Witness ==
  /\ ~scancelled
  /\ Len(sgot) = 6
  /\ sgot[5] = Chunk(4)
  /\ sgot[6] = DoneSignal

\* C30: a next() call that is outstanding eventually resolves, and
\* cancelStream() resolves an outstanding call with done: true in the same
\* step.
C30_EveryNextResolves ==
  /\ (spending ~> ~spending)
  /\ [][(scancelled' /\ ~scancelled /\ spending) =>
          (~spending' /\ sgot' = Append(sgot, DoneSignal))]_vars

C30_Witness ==
  /\ scancelled
  /\ sppc = "timer"
  /\ ~spending
  /\ Len(sgot) >= 2
  /\ sgot[Len(sgot)] = DoneSignal
  /\ sgot[1] = Chunk(0)

\* C31: the stream holds one waiting caller at most.  A next() call made
\* while an earlier call waits replaces the stored resolver, so the stored
\* resolver always belongs to the most recent call; a result handed to a
\* waiter goes to that call; and a call whose resolver was replaced is
\* never resolved.
C31_LastWaiterWins ==
  /\ []((swaiting <=> swho # 0) /\ (swho # 0 => swho = scalls))
  /\ [][(swaiting /\ scalls' = scalls + 1) =>
          (swho' = scalls' /\ swho \in Orphans')]_vars
  /\ [][(swaiting /\ Len(sgot') > Len(sgot)) =>
          (scallOf' = Append(scallOf, scalls) /\ swho' = 0)]_vars
  /\ [][Orphans \subseteq Orphans']_vars

C31_Witness ==
  /\ sppc = "finished"
  /\ 1 \in Orphans
  /\ Len(sgot) >= 1
  /\ sgot[1] = Chunk(0)
  /\ scallOf[1] = 2

\* ========================================================== SimplePromiseLike
\* (src/src/003_promise_like_practice.ts)

\* what the executor calls resolve and reject with
SettleValues == {1, 2}
SettleReasons == {0 - 1, 0 - 2}

\* what a throwing executor and a throwing handler throw
Errors == [executor |-> 0 - 8, handler |-> 0 - 9]

\* what a handler that returns a plain value returns, given x
Handler(x) == x + 10

\* a handler returns a plain value, throws, or returns a PromiseLike
Behaviours == {"value", "throw", "thenable"}

\* lines 21-25 and 56-58: the fields have their initial values and the
\* constructor is about to call the executor
PInit ==
  /\ LCIdle
  /\ MIdle
  /\ TIdle
  /\ GIdle
  /\ SIdle
  /\ CIdle
  /\ pphase = "executor"
  /\ pstate = "pending"
  /\ pvalue = 0
  /\ preason = 0
  /\ pfulCbs = <<>>
  /\ prejCbs = <<>>
  /\ pthens = <<>>
  /\ ptimers = <<>>
  /\ pcalls = 0
  /\ pthrew = FALSE

\* the part of the state resolve, reject and then() work on
PromiseState ==
  [state |-> pstate, value |-> pvalue, reason |-> preason, ful |-> pfulCbs,
   rej |-> prejCbs, thens |-> pthens, timers |-> ptimers]

SetPromise(ps) ==
  /\ pstate' = ps.state
  /\ pvalue' = ps.value
  /\ preason' = ps.reason
  /\ pfulCbs' = ps.ful
  /\ prejCbs' = ps.rej
  /\ pthens' = ps.thens
  /\ ptimers' = ps.timers

\* lines 38 / 50: forEach(cb => setTimeout(() => cb(...), 0)) over the
\* wrappers of the then() calls in cbs
Deferred(cbs, which) ==
  [i \in 1..Len(cbs) |-> [stage |-> "outer", which |-> which, id |-> cbs[i]]]

\* resolve (lines 31-41)
Resolve(ps, v) ==
  IF ps.state = "pending"
    THEN [ps EXCEPT !.state = "fulfilled",
                    !.value = v,
                    !.timers = @ \o Deferred(ps.ful, "F"),
                    !.ful = <<>>,
                    !.rej = <<>>]
    ELSE ps

\* reject (lines 43-53)
\* (faulty variant: the state is not tested)
Reject_Unguarded(ps, r) ==
  [ps EXCEPT !.state = "rejected",
             !.reason = r,
             !.timers = @ \o Deferred(ps.rej, "R"),
             !.ful = <<>>,
             !.rej = <<>>]
Reject(ps, r) ==
  IF ps.state = "pending"
    THEN [ps EXCEPT !.state = "rejected",
                    !.reason = r,
                    !.timers = @ \o Deferred(ps.rej, "R"),
                    !.ful = <<>>,
                    !.rej = <<>>]
    ELSE ps

\* resolve and reject of the native promise then() returned (line 78):
\* only the first call has an effect
NativeSettle(t, st, v) ==
  IF t.out = "pending" THEN [t EXCEPT !.out = st, !.outVal = v] ELSE t

\* lines 82-105 and 112-138: the timer callback of a wrapper of then() call
\* k; with a handler, the handler is invoked and the returned promise
\* follows what it does; without one, the value or reason is passed on
Body(ps, which, k) ==
  LET t == ps.thens[k]
      has == IF which = "F" THEN t.onF ELSE t.onR
      arg == IF which = "F" THEN ps.value ELSE ps.reason
      ran == [t EXCEPT !.runs = @ + 1]
      t2 == IF has
              THEN IF t.behav = "throw"
                     THEN NativeSettle(ran, "rejected", Errors.handler)
                   ELSE IF t.behav = "thenable"
                     THEN NativeSettle(ran, "adopting", 0)
                     ELSE NativeSettle(ran, "fulfilled", Handler(arg))
              ELSE IF which = "F"
                     THEN NativeSettle(t, "fulfilled", ps.value)
                     ELSE NativeSettle(t, "rejected", ps.reason)
  IN [ps EXCEPT !.thens[k] = t2]

\* wrappedOnFulfilled / wrappedOnRejected (lines 79-81, 106 and 109-111,
\* 139): the body is handed to setTimeout(..., 0)
\* (faulty variant: the body is run at once)
Wrapped_Sync(ps, which, k) == Body(ps, which, k)
Wrapped(ps, which, k) ==
  [ps EXCEPT !.timers = Append(@, [stage |-> "inner", which |-> which, id |-> k])]

\* then (lines 68-160), called with or without each handler
Then(ps, onF, onR, behav) ==
  LET k == Len(ps.thens) + 1
      t == [onF |-> onF, onR |-> onR, behav |-> behav, at |-> ps.state,
            out |-> "pending", outVal |-> 0, runs |-> 0]
      ps1 == [ps EXCEPT !.thens = Append(@, t)]
  IN IF ps.state = "fulfilled" THEN Wrapped(ps1, "F", k)
     ELSE IF ps.state = "rejected" THEN Wrapped(ps1, "R", k)
     ELSE [ps1 EXCEPT !.ful = IF onF THEN Append(@, k) ELSE @,
                      !.rej = IF onR THEN Append(@, k) ELSE @]

\* resolve(v) is called, by the executor or by something it scheduled
PResolve(v) ==
  /\ UNCHANGED <<lcVars, mVars, tVars, gVars, sVars, cVars>>
  /\ pphase \in {"executor", "live"}
  /\ pcalls < MaxSettleCalls
  /\ pcalls' = pcalls + 1
  /\ SetPromise(Resolve(PromiseState, v))
  /\ UNCHANGED <<pphase, pthrew>>

\* reject(r) is called, by the executor or by something it scheduled
PReject(r) ==
  /\ UNCHANGED <<lcVars, mVars, tVars, gVars, sVars, cVars>>
  /\ pphase \in {"executor", "live"}
  /\ pcalls < MaxSettleCalls
  /\ pcalls' = pcalls + 1
  /\ SetPromise(Reject(PromiseState, r))
  /\ UNCHANGED <<pphase, pthrew>>

\* lines 59-62: the executor throws and the constructor calls reject
PThrow ==
  /\ UNCHANGED <<lcVars, mVars, tVars, gVars, sVars, cVars>>
  /\ pphase = "executor"
  /\ pphase' = "live"
  /\ pthrew' = TRUE
  /\ SetPromise(Reject(PromiseState, Errors.executor))
  /\ UNCHANGED pcalls

\* line 58: the executor returns and the constructor with it
PReturn ==
  /\ UNCHANGED <<lcVars, mVars, tVars, gVars, sVars, cVars>>
  /\ pphase = "executor"
  /\ pphase' = "live"
  /\ UNCHANGED <<pstate, pvalue, preason, pfulCbs, prejCbs, pthens, ptimers,
                 pcalls, pthrew>>

\* then(onfulfilled?, onrejected?) is called on the constructed object
PThen(onF, onR, behav) ==
  /\ UNCHANGED <<lcVars, mVars, tVars, gVars, sVars, cVars>>
  /\ pphase = "live"
  /\ Len(pthens) < MaxThens
  /\ SetPromise(Then(PromiseState, onF, onR, behav))
  /\ UNCHANGED <<pphase, pcalls, pthrew>>

\* the oldest setTimeout(..., 0) callback runs: the one resolve / reject
\* scheduled calls the wrapper, the one the wrapper scheduled is its body
PTimer ==
  /\ UNCHANGED <<lcVars, mVars, tVars, gVars, sVars, cVars>>
  /\ pphase = "live"
  /\ ptimers # <<>>
  /\ LET h == Head(ptimers)
         ps == [PromiseState EXCEPT !.timers = Tail(@)]
     IN SetPromise(IF h.stage = "outer" THEN Wrapped(ps, h.which, h.id)
                                        ELSE Body(ps, h.which, h.id))
  /\ UNCHANGED <<pphase, pcalls, pthrew>>

\* lines 89 / 119: the PromiseLike a handler returned settles, and with it
\* the promise then() returned
PAdopt(k, st) ==
  /\ UNCHANGED <<lcVars, mVars, tVars, gVars, sVars, cVars>>
  /\ k \in DOMAIN pthens
  /\ pthens[k].out = "adopting"
  /\ pthens' = [pthens EXCEPT ![k].out = st, ![k].outVal = Handler(0)]
  /\ UNCHANGED <<pphase, pstate, pvalue, preason, pfulCbs, prejCbs, ptimers,
                 pcalls, pthrew>>

PNext ==
  \/ \E v \in SettleValues : PResolve(v)
  \/ \E r \in SettleReasons : PReject(r)
  \/ PThrow
  \/ PReturn
  \/ \E onF, onR \in BOOLEAN :
       \E behav \in (IF onF \/ onR THEN Behaviours ELSE {"value"}) :
         PThen(onF, onR, behav)
  \/ PTimer
  \/ \E k \in 1..MaxThens : \E st \in {"fulfilled", "rejected"} : PAdopt(k, st)

SpecPromise == PInit /\ [][PNext]_vars

\* timers fire
FairSpecPromise ==
  /\ SpecPromise
  /\ WF_vars(PTimer)

\* ------------------------------------------------- SimplePromiseLike: claims

\* C33: the object settles at most once: the state leaves "pending" only
\* for "fulfilled" or "rejected", value and reason are set only by that
\* step, and once settled no call of resolve or reject, the reject after a
\* throwing executor included, changes state, value or reason.
C33_SettlesOnce ==
  /\ [](pstate = "pending" => (pvalue = 0 /\ preason = 0))
  /\ [][pstate # "pending" =>
          (pstate' = pstate /\ pvalue' = pvalue /\ preason' = preason)]_vars
  /\ [][pstate = "pending" => pstate' \in {"pending", "fulfilled", "rejected"}]_vars

C33_Witness ==
  /\ pstate = "fulfilled"
  /\ pvalue = 1
  /\ preason = 0
  /\ pcalls = 2
  /\ pthrew

\* then() call k has no handler for the outcome the object has settled with
Unhandled(k) ==
  /\ k \in DOMAIN pthens
  /\ \/ pstate = "rejected" /\ ~pthens[k].onR
     \/ pstate = "fulfilled" /\ ~pthens[k].onF

\* the promise then() call k returned has settled as the object did
PassedOn(k) ==
  /\ k \in DOMAIN pthens
  /\ \/ /\ pstate = "rejected"
        /\ pthens[k].out = "rejected"
        /\ pthens[k].outVal = preason
     \/ /\ pstate = "fulfilled"
        /\ pthens[k].out = "fulfilled"
        /\ pthens[k].outVal = pvalue

\* C34: when then() was called without a handler for the outcome the
\* object settles with, the promise it returned eventually settles the
\* same way with the same value or reason, whether then() was called
\* before or after the object settled.
C34_PassThrough ==
  \A k \in 1..MaxThens : Unhandled(k) ~> PassedOn(k)

\* the then() calls one of whose handlers has been invoked
Ran == {k \in DOMAIN pthens : pthens[k].runs > 0}

\* C35: a handler passed to then() is invoked only by a timer callback,
\* in a step that is neither the then() call nor a call of resolve or
\* reject, whether then() was called on a pending or on a settled object;
\* and no then() call has a handler invoked more than once.
C35_CallbacksDeferred ==
  /\ [](\A k \in DOMAIN pthens : pthens[k].runs <= 1)
  /\ [][Ran' # Ran =>
          /\ ptimers # <<>>
          /\ ptimers' = Tail(ptimers)
          /\ Len(pthens') = Len(pthens)
          /\ pcalls' = pcalls
          /\ pstate' = pstate]_vars

C35_Witness ==
  /\ Len(pthens) = 2
  /\ pthens[1].at = "pending"
  /\ pthens[1].runs = 1
  /\ pthens[2].at = "fulfilled"
  /\ pthens[2].runs = 1

\* ============================================================= AsyncCountdown
\* (src/src/002_async_iterable.ts)

\* Intervals are held in units of half a millisecond, so that the halving
\* of line 57 stays within the integers: the default of line 21 is 500 ms
\* and the floor of line 57 is 50 ms
DefaultInterval == 2 * 500
IntervalFloor == 2 * 50

\* the commands next() takes (line 50)
Commands == {"none", "hurry", "pause"}

\* the state after new AsyncCountdown(startCount) and a call of
\* [Symbol.asyncIterator]() (lines 21-28, 37-40); the constructor throws
\* unless startCount is positive
CInit ==
  /\ LCIdle
  /\ MIdle
  /\ TIdle
  /\ GIdle
  /\ SIdle
  /\ PIdle
  /\ cstart \in 1..MaxCount
  /\ ccount = cstart
  /\ cinterval = DefaultInterval
  /\ cpaused = FALSE
  /\ cflight = 0
  /\ cgot = <<>>
  /\ cclosed = FALSE

\* line 57: Math.max(50, interval / 2)
Hurry(x) == IF 2 * IntervalFloor > x THEN IntervalFloor ELSE x \div 2

\* next(command) up to its return of line 77 or its await of line 82
CNext(command) ==
  /\ UNCHANGED <<lcVars, mVars, tVars, gVars, sVars, pVars>>
  /\ cstart > 0
  /\ Len(cgot) + cflight < MaxNextCalls
  /\ cinterval' = IF command = "hurry" THEN Hurry(cinterval) ELSE cinterval
  /\ cpaused' = IF command = "pause" THEN ~cpaused ELSE cpaused
  /\ IF ccount <= 0
       THEN /\ cgot' = Append(cgot, [done |-> TRUE, n |-> 0, late |-> cclosed])
            /\ UNCHANGED cflight
       ELSE /\ cflight' = cflight + 1
            /\ UNCHANGED cgot
  /\ UNCHANGED <<cstart, ccount, cclosed>>

\* lines 82-90: the delay of a suspended next() call ends; it reads
\* currentCount for its value, decrements it and resolves with done: false
CDelay ==
  /\ UNCHANGED <<lcVars, mVars, tVars, gVars, sVars, pVars>>
  /\ cflight > 0
  /\ cflight' = cflight - 1
  /\ cgot' = Append(cgot, [done |-> FALSE, n |-> ccount, late |-> cclosed])
  /\ ccount' = ccount - 1
  /\ UNCHANGED <<cstart, cinterval, cpaused, cclosed>>

\* return() (lines 95-109)
CReturn ==
  /\ UNCHANGED <<lcVars, mVars, tVars, gVars, sVars, pVars>>
  /\ cstart > 0
  /\ ccount' = 0
  /\ cclosed' = TRUE
  /\ UNCHANGED <<cstart, cinterval, cpaused, cflight, cgot>>

\* throw() (lines 113-126)
CThrow ==
  /\ UNCHANGED <<lcVars, mVars, tVars, gVars, sVars, pVars>>
  /\ cstart > 0
  /\ ccount' = 0
  /\ cclosed' = TRUE
  /\ UNCHANGED <<cstart, cinterval, cpaused, cflight, cgot>>

CountdownNext ==
  \/ \E command \in Commands : CNext(command)
  \/ CDelay
  \/ CReturn
  \/ CThrow

SpecCountdown == CInit /\ [][CountdownNext]_vars

\* ---------------------------------------------------- AsyncCountdown: claims

\* C36: a next() call that resolves after return() or throw() was called
\* resolves with done: true, a call that was waiting on its interval at
\* that moment included; and every value emitted is the text for some n
\* between startCount and 1.
C36_ClosedStaysClosed ==
  \A k \in DOMAIN cgot :
    /\ cgot[k].late => cgot[k].done
    /\ ~cgot[k].done => cgot[k].n \in 1..cstart

====
